---------------------------- MODULE Spec2Model ----------------------------
(***************************************************************************)
(* A model of the column interaction-diagram engine (src/genconcrete.py,   *)
(* src/columnconc.py) and of the script that drives it (src/app.py).       *)
(*                                                                         *)
(* The program computes with IEEE doubles.  The model computes with exact  *)
(* integers and fractions: every quantity is an integer in a stated unit,  *)
(* a quotient whose exact value matters is a pair <<numerator,             *)
(* denominator>>, and a quotient 0/0 of two numpy doubles is the value NaN *)
(* (every comparison with it is false).  Rounding of the last binary digit *)
(* of a double is not modelled.                                            *)
(***************************************************************************)
EXTENDS Integers, Sequences, FiniteSets, TLC

VARIABLES
    pc,          \* position of the run: the operation about to run, "done" or "error"
    cid_df,      \* check_col_adequacy: the caller's diagram, rows of [phi_Pn, phi_Mn]
    input_Pu,    \* check_col_adequacy: <<>> for None, <<Pu>> for a number
    input_Mu,    \* check_col_adequacy: the demand moment
    scan,        \* check_col_adequacy: the locals of the interpolation loop
    adequacy,    \* check_col_adequacy: what the call produced
    op,          \* a call of one function: its name
    argv,        \* a call of one function: the arguments of each call made
    retv,        \* a call of one function: what each call produced
    ier,         \* scipy's fsolve: its convergence flag (1: a root was found)
    section,     \* app.py: the inputs of the form
    cid_coordinates_x,   \* app.py: the points of the major-axis diagram so far
    cid_coordinates_y    \* app.py: the points of the minor-axis diagram so far

adqVars == <<cid_df, input_Pu, input_Mu, scan, adequacy>>
callVars == <<op, argv, retv, ier>>
appVars == <<section, cid_coordinates_x, cid_coordinates_y>>
vars == <<pc, adqVars, callVars, appVars>>

Unused == <<>>

None == <<>>

Abs(x) == IF x < 0 THEN -x ELSE x

SetMin(S) == CHOOSE x \in S : \A y \in S : x <= y
SetMax(S) == CHOOSE x \in S : \A y \in S : x >= y

(***************************************************************************)
(* check_col_adequacy (src/columnconc.py:266-315)                          *)
(***************************************************************************)

\* TOTAL_POINTS (src/app.py:80): the rows of a diagram.
TOTAL_POINTS == 8

Rows == 1..TOTAL_POINTS

\* cid_df[col_x].min(), cid_df[col_x].max()
min_phi_Pn(df) == SetMin({df[r].phi_Pn : r \in Rows})
max_phi_Pn(df) == SetMax({df[r].phi_Pn : r \in Rows})

\* Only the upper end of the range examined.
PuOutOfRange_UpperOnly(Pu, df) == Pu > max_phi_Pn(df)

\* line 291: the axial demand lies outside the range of the diagram
PuOutOfRange(Pu, df) == Pu < min_phi_Pn(df) \/ Pu > max_phi_Pn(df)

\* cid_df.sort_values(by=col_x).reset_index(drop=True), column col_x: the
\* values of phi_Pn in ascending order, position 0 first (insertion of each
\* row's value after the values not above it).
RECURSIVE InsertAsc(_, _)
InsertAsc(s, x) ==
    IF s = <<>> THEN <<x>>
    ELSE IF x < Head(s) THEN <<x>> \o s
    ELSE <<Head(s)>> \o InsertAsc(Tail(s), x)

RECURSIVE SortAsc(_, _)
SortAsc(df, n) ==
    IF n = 0 THEN <<>> ELSE InsertAsc(SortAsc(df, n - 1), df[n].phi_Pn)

sort_values(df) == SortAsc(df, TOTAL_POINTS)

\* The rows of df in ascending order of phi_Pn, rows with equal phi_Pn in
\* their order in df: what df would hold had line 299 sorted it in place.
RECURSIVE InsertRow(_, _)
InsertRow(s, r) ==
    IF s = <<>> THEN <<r>>
    ELSE IF r.phi_Pn < Head(s).phi_Pn THEN <<r>> \o s
    ELSE <<Head(s)>> \o InsertRow(Tail(s), r)

RECURSIVE SortRows(_, _)
SortRows(df, n) ==
    IF n = 0 THEN <<>> ELSE InsertRow(SortRows(df, n - 1), df[n])

cid_df_after_sort_InPlace(df) == SortRows(df, TOTAL_POINTS)

\* line 299: sort_values is called without inplace=True and reset_index
\* without inplace=True, so each returns a new frame, bound to the local name
\* cid_df_asc; the frame the caller passed as cid_df keeps its rows and
\* their order.
cid_df_after_sort(df) == df

\* cid_df_asc.loc[i, col_x] for the 0-based label i
LocPn(asc, i) == asc[i + 1]

\* The test of line 307 with both comparisons strict.
Brackets_Strict(Pn1, Pu, Pn2) == Pn1 < Pu /\ Pu < Pn2

\* line 307: value_Pn1 <= input_Pu <= value_Pn2
Brackets(Pn1, Pu, Pn2) == Pn1 <= Pu /\ Pu <= Pn2

\* The labels i of range(cid_df.shape[0]) at which the loop can evaluate its
\* test: cid_df_asc.loc[i + 1, col_x] exists for i + 1 <= 7 only.
ScanLabels == 0..(TOTAL_POINTS - 2)

\* lines 300-310: the first label whose pair brackets Pu, or -1 when the loop
\* reaches label 7, where .loc[8] raises KeyError.
FirstBracket(asc, Pu) ==
    LET hits == {i \in ScanLabels : Brackets(LocPn(asc, i), Pu, LocPn(asc, i + 1))}
    IN  IF hits = {} THEN -1 ELSE SetMin(hits)

\* line 309: corr_phi_Mn = Mn1 - ((Pn1 - Pu) * (Mn1 - Mn2)) / (Pn1 - Pn2), as
\* the fraction <<num, den>> with den = Pn1 - Pn2.  With Pn1 = Pn2 the test of
\* line 307 gives Pu = Pn1, the quotient is 0.0 / 0.0 and the value is NaN
\* (den = 0).
Interpolate(Pn1, Mn1, Pn2, Mn2, Pu) ==
    <<Mn1 * (Pn1 - Pn2) - (Pn1 - Pu) * (Mn1 - Mn2), Pn1 - Pn2>>

\* x > q for an integer x and a fraction q; false when q is NaN.
GreaterThan(x, q) ==
    IF q[2] > 0 THEN x * q[2] > q[1]
    ELSE IF q[2] < 0 THEN x * q[2] < q[1]
    ELSE FALSE

\* The moment demand compared with its sign.
AbsMu_Signed(Mu) == Mu

\* line 297: input_Mu = abs(input_Mu)
AbsMu(Mu) == Abs(Mu)

\* line 312: input_Mu > corr_phi_Mn
MomentExceeds(Mu, corr) == GreaterThan(AbsMu(Mu), corr)

NoScan == [i |-> -1, Pn1 |-> 0, Mn1 |-> 0, Pn2 |-> 0, Mn2 |-> 0, corr |-> <<0, 1>>]
NoResult == [kind |-> "none", is_adequate |-> FALSE, status |-> "", summary |-> ""]
Raise(e) == [kind |-> "raise", is_adequate |-> FALSE, status |-> "", summary |-> e]
Verdict(ok, s) ==
    [kind |-> "return", is_adequate |-> ok,
     status |-> IF ok THEN "OK" ELSE "NG", summary |-> s]

\* lines 286-287
AdequacyNoPu ==
    /\ pc = "adequacy"
    /\ input_Pu = <<>>
    /\ adequacy' = Raise("ValueError")
    /\ pc' = "done"
    /\ UNCHANGED <<cid_df, input_Pu, input_Mu, scan, callVars, appVars>>

\* lines 290-292
AdequacyRange ==
    /\ pc = "adequacy"
    /\ input_Pu # <<>>
    /\ PuOutOfRange(input_Pu[1], cid_df)
    /\ adequacy' = Verdict(FALSE, "Pu is greater than phi_Pn")
    /\ pc' = "done"
    /\ UNCHANGED <<cid_df, input_Pu, input_Mu, scan, callVars, appVars>>

\* lines 295, 315: no moment demand
AdequacyNoMoment ==
    /\ pc = "adequacy"
    /\ input_Pu # <<>>
    /\ ~PuOutOfRange(input_Pu[1], cid_df)
    /\ input_Mu = 0
    /\ adequacy' = Verdict(TRUE, "Load demand does not exceed capacity")
    /\ pc' = "done"
    /\ UNCHANGED <<cid_df, input_Pu, input_Mu, scan, callVars, appVars>>

\* lines 295-315.  sort_values sorts with its default kind, quicksort, which
\* does not fix the order of rows with equal phi_Pn: the row at a position of
\* the sorted frame is any row of cid_df with that position's phi_Pn, the two
\* rows of a pair being two rows of cid_df.
AdequacyMoment ==
    /\ pc = "adequacy"
    /\ input_Pu # <<>>
    /\ ~PuOutOfRange(input_Pu[1], cid_df)
    /\ input_Mu # 0
    /\ LET Pu  == input_Pu[1]
           asc == sort_values(cid_df)
           i   == FirstBracket(asc, Pu)
       IN  IF i < 0
           THEN /\ adequacy' = Raise("KeyError")
                /\ scan' = [NoScan EXCEPT !.i = TOTAL_POINTS - 1]
           ELSE \E r1, r2 \in Rows :
                  /\ r1 # r2
                  /\ cid_df[r1].phi_Pn = LocPn(asc, i)
                  /\ cid_df[r2].phi_Pn = LocPn(asc, i + 1)
                  /\ LET corr == Interpolate(cid_df[r1].phi_Pn, cid_df[r1].phi_Mn,
                                             cid_df[r2].phi_Pn, cid_df[r2].phi_Mn, Pu)
                     IN  /\ scan' = [i |-> i,
                                     Pn1 |-> cid_df[r1].phi_Pn, Mn1 |-> cid_df[r1].phi_Mn,
                                     Pn2 |-> cid_df[r2].phi_Pn, Mn2 |-> cid_df[r2].phi_Mn,
                                     corr |-> corr]
                         /\ adequacy' =
                              IF MomentExceeds(input_Mu, corr)
                              THEN Verdict(FALSE, "Mu is greater than phi_Mn")
                              ELSE Verdict(TRUE, "Load demand does not exceed capacity")
    /\ cid_df' = cid_df_after_sort(cid_df)
    /\ pc' = "done"
    /\ UNCHANGED <<input_Pu, input_Mu, callVars, appVars>>

check_col_adequacy ==
    \/ AdequacyNoPu
    \/ AdequacyRange
    \/ AdequacyNoMoment
    \/ AdequacyMoment

(***************************************************************************)
(* The adequacy check on bounded diagrams and demands.                     *)
(***************************************************************************)

\* Row i of a diagram has phi_Pn = 2 * ((p0 + i * dp) modulo MaxPn + 1) - 4
\* and phi_Mn = (i * dm) modulo MaxMn + 1: with dp prime to MaxPn + 1 the 8
\* axial values differ and are out of order, with another dp some repeat,
\* with dp = 0 all are equal.  The demands lie between and beside them.
MaxPn == 7
MaxMn == 2

PnShape(p0, dp) == [i \in Rows |-> 2 * ((p0 + i * dp) % (MaxPn + 1)) - 4]
MnShape(dm) == [i \in Rows |-> (i * dm) % (MaxMn + 1)]

Diagrams ==
    {[i \in Rows |-> [phi_Pn |-> PnShape(p0, dp)[i], phi_Mn |-> MnShape(dm)[i]]] :
        p0 \in 0..MaxPn, dp \in 0..MaxPn, dm \in 0..MaxMn}

PuVals == (-5)..(2 * MaxPn - 3)
MuVals == (-(MaxMn + 1))..(MaxMn + 1)

InitAdequacy ==
    /\ pc = "adequacy"
    /\ cid_df \in Diagrams
    /\ input_Pu \in {<<>>} \cup {<<p>> : p \in PuVals}
    /\ input_Mu \in MuVals
    /\ scan = NoScan
    /\ adequacy = NoResult
    /\ op = Unused /\ argv = Unused /\ retv = Unused /\ ier = 1
    /\ section = Unused /\ cid_coordinates_x = Unused /\ cid_coordinates_y = Unused

NextAdequacy == check_col_adequacy

SpecAdequacy == InitAdequacy /\ [][NextAdequacy]_vars

PnOf(df) == {df[r].phi_Pn : r \in Rows}
PuGiven == pc = "done" /\ adequacy.kind # "none" /\ input_Pu # <<>>
PuInRange ==
    /\ PuGiven
    /\ \E r \in Rows : cid_df[r].phi_Pn <= input_Pu[1]
    /\ \E r \in Rows : cid_df[r].phi_Pn >= input_Pu[1]

\* C1: a call with Pu below every phi_Pn of the diagram, or above every one,
\* returns is_adequate = False with status "NG", whatever Mu is; it raises
\* nothing.
ThmC1_OutOfRangeIsNG ==
    (/\ PuGiven
     /\ \/ \A r \in Rows : input_Pu[1] < cid_df[r].phi_Pn
        \/ \A r \in Rows : input_Pu[1] > cid_df[r].phi_Pn)
    => /\ adequacy.kind = "return"
       /\ adequacy.is_adequate = FALSE
       /\ adequacy.status = "NG"

\* C1 happens: a demand below the diagram with a moment, answered NG.
WitC1_BelowRangeWithMoment ==
    /\ PuGiven
    /\ \A r \in Rows : input_Pu[1] < cid_df[r].phi_Pn
    /\ input_Mu # 0
    /\ adequacy.status = "NG"

\* The pair of axial values the ascending scan stops at, said without the
\* sort: with a value below Pu, the largest value below Pu and the smallest
\* value not below it; with Pu the smallest value, that value and the next
\* one in the ascending order (itself when two rows hold it).
ExpectedPn1(df, Pu) ==
    LET below == {x \in PnOf(df) : x < Pu}
    IN  IF below # {} THEN SetMax(below) ELSE Pu
ExpectedPn2(df, Pu) ==
    LET below == {x \in PnOf(df) : x < Pu}
    IN  IF below # {} THEN SetMin({x \in PnOf(df) : x >= Pu})
        ELSE IF Cardinality({r \in Rows : df[r].phi_Pn = Pu}) >= 2 THEN Pu
        ELSE SetMin({x \in PnOf(df) : x > Pu})

\* |Mu| > Mn1 - (Pn1 - Pu) * (Mn1 - Mn2) / (Pn1 - Pn2) for Pn1 < Pn2, both
\* sides multiplied by Pn2 - Pn1; for Pn1 = Pn2 the quotient is 0/0, the
\* capacity is NaN and nothing exceeds it.
ExpectedExceeds(Mu, Pn1, Mn1, Pn2, Mn2, Pu) ==
    /\ Pn1 < Pn2
    /\ Abs(Mu) * (Pn2 - Pn1) > Mn1 * (Pn2 - Pn1) + (Pu - Pn1) * (Mn2 - Mn1)

\* C2: for Pu within the range of the diagram, Mu = 0 is answered OK; for
\* Mu # 0 the scan takes the first consecutive pair of the ascending order
\* with Pn1 <= Pu <= Pn2, two rows of the diagram, and the answer is NG
\* exactly when |Mu| exceeds the capacity interpolated between them, OK
\* otherwise.
ThmC2_MomentVerdict ==
    PuInRange =>
       /\ adequacy.kind = "return"
       /\ adequacy.status = (IF adequacy.is_adequate THEN "OK" ELSE "NG")
       /\ input_Mu = 0 => adequacy.is_adequate
       /\ input_Mu # 0 =>
            /\ scan.Pn1 = ExpectedPn1(cid_df, input_Pu[1])
            /\ scan.Pn2 = ExpectedPn2(cid_df, input_Pu[1])
            /\ \E r1, r2 \in Rows :
                  /\ r1 # r2
                  /\ cid_df[r1] = [phi_Pn |-> scan.Pn1, phi_Mn |-> scan.Mn1]
                  /\ cid_df[r2] = [phi_Pn |-> scan.Pn2, phi_Mn |-> scan.Mn2]
            /\ adequacy.is_adequate =
                 ~ExpectedExceeds(input_Mu, scan.Pn1, scan.Mn1, scan.Pn2, scan.Mn2,
                                  input_Pu[1])

\* C2 happens: a negative moment whose size exceeds a capacity interpolated
\* strictly between two rows, answered NG.
WitC2_NegativeMomentExceeds ==
    /\ PuInRange
    /\ input_Mu < 0
    /\ scan.Pn1 < input_Pu[1]
    /\ input_Pu[1] < scan.Pn2
    /\ scan.Mn1 # scan.Mn2
    /\ adequacy.status = "NG"

(***************************************************************************)
(* Arithmetic.  TLC's integers have 32 bits: a product that would not fit  *)
(* is divided while it is formed.                                          *)
(***************************************************************************)

Sign(x) == IF x < 0 THEN -1 ELSE IF x > 0 THEN 1 ELSE 0

\* <<q, r>> with a * b = q * c + r and 0 <= r < c, for a, b >= 0 and c > 0.
RECURSIVE MulDivQR(_, _, _)
MulDivQR(a, b, c) ==
    IF b = 0 THEN <<0, 0>>
    ELSE LET half == MulDivQR(a, b \div 2, c)
             add  == IF b % 2 = 1 THEN a ELSE 0
             t    == 2 * half[2] + (add % c)
         IN  <<2 * half[1] + (add \div c) + (t \div c), t % c>>

\* The integer nearest to a * b / c (a half goes away from zero), c > 0.
MulDiv(a, b, c) ==
    LET qr == MulDivQR(Abs(a), Abs(b), c)
    IN  Sign(a) * Sign(b) * (qr[1] + (IF 2 * qr[2] >= c THEN 1 ELSE 0))

\* Python's round(a / c) for c > 0: the nearest integer, a half to the even one.
RoundHalfEven(a, c) ==
    LET q == a \div c
        r == a % c
    IN  IF 2 * r < c THEN q
        ELSE IF 2 * r > c THEN q + 1
        ELSE IF q % 2 = 0 THEN q ELSE q + 1

\* The largest r in lo..hi with r * r <= n, for lo * lo <= n.
RECURSIVE ISqrt(_, _, _)
ISqrt(n, lo, hi) ==
    IF lo >= hi THEN lo
    ELSE LET mid == (lo + hi + 1) \div 2
         IN  IF mid * mid <= n THEN ISqrt(n, mid, hi) ELSE ISqrt(n, lo, mid - 1)

(***************************************************************************)
(* Units.  A length d is carried as 2 * d (half millimetres), a depth of   *)
(* the neutral axis c as the fraction <<cn, cd>> of millimetres, an area   *)
(* as 1000 * As, a stress and a strain times Es as 1000 * MPa, beta1 as    *)
(* 700 * beta1, phi as 2400000 * phi, a force in N (0.001 kN), a moment in *)
(* N m (0.001 kN m).                                                       *)
(***************************************************************************)

\* What a call produces: a value, or a raised exception.
Return(v) == [kind |-> "return", err |-> "", val |-> v]
Raised(e) == [kind |-> "raise", err |-> e, val |-> 0]

(***************************************************************************)
(* src/genconcrete.py                                                      *)
(***************************************************************************)

STD_REBAR_SIZES == {10, 12, 16, 20, 25, 28, 32, 36, 40, 50}

\* calc_effdepth: <<2 * dt, 2 * dc>>; d_trans is None or <<d_trans>>.
calc_effdepth(h, ccover, d_main, d_trans) ==
    IF d_trans = None
    THEN <<2 * h - 2 * ccover - d_main, 2 * ccover + d_main>>
    ELSE <<2 * h - 2 * ccover - 2 * d_trans[1] - d_main,
           2 * ccover + 2 * d_trans[1] + d_main>>

\* line 67: the guard on the number of bars
TooFewBars(n_bar) == n_bar < 2

\* The guard on the bar size left out.
NotStandardSize_Unchecked(d_main) == FALSE

\* line 69: the guard on the bar size
NotStandardSize(d_main) == d_main \notin STD_REBAR_SIZES

\* calc_steelarea: 1000 * round(n_bar * d_main^2 * pi / 4, 3), with
\* pi / 4 = 0.785398163
calc_steelarea(d_main, n_bar) ==
    IF TooFewBars(n_bar) THEN Raised("ValueError")
    ELSE IF NotStandardSize(d_main) THEN Raised("ValueError")
    ELSE Return(MulDiv(785398163, n_bar * d_main * d_main, 1000000))

BASE_VALUE == 595
MIN_FC == 17
MAX_FC == 55
MAX_NORMAL_STR == 28

\* line 83: the guard on fc
BelowMinFc(fc) == fc < MIN_FC

\* line 87: the strengths answered with BASE_VALUE above the reduced range
AtOrAboveMaxFc(fc) == fc >= MAX_FC

\* calc_betaone: 700 * beta1; 0.05 * (fc - 28) / 7 is 5 * (fc - 28) / 700.
calc_betaone(fc) ==
    IF BelowMinFc(fc) THEN Raised("ValueError")
    ELSE IF fc >= MIN_FC /\ fc <= MAX_NORMAL_STR THEN Return(BASE_VALUE)
    ELSE IF AtOrAboveMaxFc(fc) THEN Return(BASE_VALUE)
    ELSE Return(BASE_VALUE - 5 * (fc - MAX_NORMAL_STR))

\* 1000 * 600 * (c - d) / c for c = cn / cd and d = d2 / 2
RawStress(c, d2) == MulDiv(600000, 2 * c[1] - d2 * c[2], 2 * c[1])

\* calc_fs without lines 98-101: the stress of line 97 as it is.
calc_fs_Unclipped(c, d2, fy) ==
    IF c[1] = 0 THEN Raised("ZeroDivisionError") ELSE Return(RawStress(c, d2))

\* calc_fs: 1000 * fs; c = 0 divides by zero.
calc_fs(c, d2, fy) ==
    IF c[1] = 0 THEN Raised("ZeroDivisionError")
    ELSE LET fs == RawStress(c, d2)
         IN  IF Abs(fs) > 1000 * fy /\ fs > 0 THEN Return(1000 * fy)
             ELSE IF Abs(fs) > 1000 * fy /\ fs < 0 THEN Return(-(1000 * fy))
             ELSE Return(fs)

\* line 113: tstrain <= ystrain, both times ESTEEL = 200000 and 1000
NotAboveYield(tstrain, fy) == tstrain <= 1000 * fy

\* The upper plateau entered at half the transition range.
AtOrAboveTensionControlled_HalfRange(tstrain, fy) == tstrain >= 1000 * fy + 300000

\* line 115: tstrain >= tcstrain; concstrain * ESTEEL * 1000 = 600000
AtOrAboveTensionControlled(tstrain, fy) == tstrain >= 1000 * fy + 600000

\* The factor of a tension-controlled section whatever the strain is.
calc_phi_value_TensionControlled(tstrain, fy) == 2160000

\* calc_phi_value: 2400000 * phi, for tstrain given as 1000 * ESTEEL * strain;
\* 0.25 * (tstrain - ystrain) / concstrain is then (tstrain - 1000 fy) / 2400000.
calc_phi_value(tstrain, fy) ==
    IF NotAboveYield(tstrain, fy) THEN 1560000
    ELSE IF AtOrAboveTensionControlled(tstrain, fy) THEN 2160000
    ELSE 1560000 + (tstrain - 1000 * fy)

\* get_secproperties: rho as the fraction <<1000 * As, 1000 * Ag>>, the clear
\* spacings as fractions of millimetres; one bar along a side divides by zero.
get_secproperties(b, h, ccover, d_main, d_trans, n_bar_b, n_bar_h, n_bar_total) ==
    LET As == calc_steelarea(d_main, n_bar_total)
    IN  IF As.kind = "raise" THEN As
        ELSE IF n_bar_b = 1 \/ n_bar_h = 1 THEN Raised("ZeroDivisionError")
        ELSE Return([gross_area |-> b * h,
                     steel_area |-> As.val,
                     rho |-> <<As.val, 1000 * b * h>>,
                     cspace_b |-> <<b - ccover * 2 - d_trans * 2 - d_main * n_bar_b,
                                    n_bar_b - 1>>,
                     cspace_h |-> <<h - ccover * 2 - d_trans * 2 - d_main * n_bar_h,
                                    n_bar_h - 1>>])

\* get_matproperties: Ec = 4700 * sqrt(fc) to the MPa below; math.sqrt raises
\* ValueError for a negative fc, calc_betaone for fc < 17.
get_matproperties(fc, fy) ==
    IF fc < 0 THEN Raised("ValueError")
    ELSE LET beta1 == calc_betaone(fc)
         IN  IF beta1.kind = "raise" THEN beta1
             ELSE Return([elasticity_concrete |-> ISqrt(22090000 * fc, 0, 46000),
                          beta1 |-> beta1.val,
                          e_ult |-> 600000,
                          elasticity_steel |-> 200000,
                          ystrain |-> 1000 * fy])

(***************************************************************************)
(* src/columnconc.py: the forces, the solver and one point of the diagram  *)
(***************************************************************************)

\* max_nomaxial: 0.8 * Po in N; ALPHA1 * fc * Ag is 17 * fc * Ag / 20.
max_nomaxial(b, h, As, fc, fy) ==
    LET component_concrete20 == 17 * fc * (b * h)
        component_steel == MulDiv(1000 * fy - 850 * fc, As, 1000000)
    IN  MulDiv(component_concrete20 + 20 * component_steel, 1, 25)

\* get_fconcrete: ALPHA1 * fc * beta1 * c * b in N, or what calc_betaone raises.
get_fconcrete(c, b, fc) ==
    LET beta1 == calc_betaone(fc)
    IN  IF beta1.kind = "raise" THEN beta1
        ELSE Return(MulDiv(17 * fc * beta1.val * b, c[1], 14000 * c[2]))

\* get_fsteel in N; fs is None or <<1000 * fs>>.
get_fsteel(c, d2, As, fc, fs) ==
    IF fs # None
    THEN MulDiv(fs[1] - 850 * fc, As, 1000000)
    ELSE MulDiv(RawStress(c, d2) - 850 * fc, As, 1000000)

\* c_solver, the three residuals, in N, at the depth c:
\* case 1 iterate_c_waxial, case 2 iterate_c_steel1, case 3 iterate_c_woaxial.
Residual(condition, c, a) ==
    CASE condition = 1 ->
           get_fconcrete(c, a.b, a.fc).val + get_fsteel(c, a.dt, a.As1, a.fc, None)
           + get_fsteel(c, a.dc, a.As2, a.fc, None)
           - max_nomaxial(a.b, a.h, a.As, a.fc, a.fy)
      [] condition = 2 ->
           MulDiv(RawStress(c, a.dt) - 850 * a.fc, a.As1, 1000000)
      [] condition = 3 ->
           get_fconcrete(c, a.b, a.fc).val + get_fsteel(c, a.dc, a.As2, a.fc, None)
           + get_fsteel(c, a.dt, a.As1, a.fc, <<-(1000 * a.fy)>>)

\* The depths the root is looked for at: MinDepth mm to MaxDepth mm, in steps
\* of 0.001 mm.
MinDepth == 5
MaxDepth == 2000

\* The least depth in lo..hi (0.001 mm) whose residual is not negative, the
\* residual being negative below lo and not negative at hi: each residual
\* increases with c on c > 0.
RECURSIVE Bisect(_, _, _, _)
Bisect(condition, a, lo, hi) ==
    IF lo >= hi THEN hi
    ELSE LET mid == (lo + hi) \div 2
         IN  IF Residual(condition, <<mid, 1000>>, a) >= 0
             THEN Bisect(condition, a, lo, mid)
             ELSE Bisect(condition, a, mid + 1, hi)

\* Whether the residual has its root among those depths.
HasRoot(condition, a) ==
    /\ Residual(condition, <<1000 * MinDepth, 1000>>, a) < 0
    /\ Residual(condition, <<1000 * MaxDepth, 1000>>, a) >= 0

\* scipy.optimize.fsolve(residual, c_initial, args).item() as c_solver calls
\* it, without full_output: with flag = 1 the root of the residual; with
\* another flag fsolve warns (RuntimeWarning) and returns its last iterate,
\* here the starting point, the iteration having made no progress.
fsolve(condition, c_initial, a, flag) ==
    IF flag = 1 /\ HasRoot(condition, a)
    THEN <<Bisect(condition, a, 1000 * MinDepth, 1000 * MaxDepth), 1000>>
    ELSE c_initial

\* c_solver: lines 114-122, the result of fsolve returned as it is.
c_solver(c_initial, a, condition, flag) == fsolve(condition, c_initial, a, flag)

\* The starting point get_c hands to c_solver: c_initial when given, else
\* the default (a length d2 / 2 as the fraction <<d2, 2>>).
StartingPoint(c_initial, default2) ==
    IF c_initial # None THEN <<c_initial[1], 1>> ELSE <<default2, 2>>

\* get_c with ystrain where line 155 has tcstrain.
get_c_TensionControlledAtYield(a, condition, c_initial, flag) ==
    CASE condition = 2 -> c_solver(StartingPoint(c_initial, 2 * a.h), a, 1, flag)
      [] condition = 3 -> c_solver(StartingPoint(c_initial, a.dt), a, 2, flag)
      [] condition = 4 -> <<a.dt * 600, a.fy + 1200>>
      [] condition = 5 -> <<a.dt * 300, a.fy + 600>>
      [] condition = 6 -> <<a.dt * 300, a.fy + 600>>
      [] condition = 7 -> c_solver(StartingPoint(c_initial, a.dc), a, 3, flag)

\* get_c: the depth c as a fraction; ystrain * ESTEEL = fy and
\* concstrain * ESTEEL = 600, so concstrain / (ystrain / 2 + concstrain) is
\* 1200 / (fy + 1200), and so on.
get_c(a, condition, c_initial, flag) ==
    CASE condition = 2 -> c_solver(StartingPoint(c_initial, 2 * a.h), a, 1, flag)
      [] condition = 3 -> c_solver(StartingPoint(c_initial, a.dt), a, 2, flag)
      [] condition = 4 -> <<a.dt * 600, a.fy + 1200>>
      [] condition = 5 -> <<a.dt * 300, a.fy + 600>>
      [] condition = 6 -> <<a.dt * 300, a.fy + 1200>>
      [] condition = 7 -> c_solver(StartingPoint(c_initial, a.dc), a, 3, flag)

\* lines 214-217: 1000 * ESTEEL * tsteel_strain for c # 0
tsteel_strain(c, dt) ==
    IF 2 * c[1] > dt * c[2]
    THEN MulDiv(600000, 2 * c[1] - dt * c[2], 2 * c[1])
    ELSE MulDiv(600000, dt * c[2] - 2 * c[1], 2 * c[1])

\* get_axial: <<fconcrete, fsteel1, fsteel2, actual_axial>> in N
get_axial(c, a) ==
    LET fs_steel1 == calc_fs(c, a.dt, a.fy).val
        fs_steel2 == calc_fs(c, a.dc, a.fy).val
        fsteel1 == get_fsteel(c, a.dt, a.As1, a.fc, <<fs_steel1>>)
        fsteel2 == get_fsteel(c, a.dc, a.As2, a.fc, <<fs_steel2>>)
        fconcrete == get_fconcrete(c, a.b, a.fc).val
    IN  <<fconcrete, fsteel1, fsteel2, fconcrete + fsteel1 + fsteel2>>

\* get_moment_arm: the four arms in 0.0005 mm; the depth of the stress block
\* a = beta1 * c in 0.001 mm is beta1 * cn / (700 * cd) * 1000.
get_moment_arm(c, beta1, a) ==
    LET block == MulDiv(1000 * beta1, c[1], 700 * c[2])
    IN  <<1000 * a.dt - block, 0, 1000 * (a.dt - a.dc), -(1000 * (a.dt - a.h))>>

\* get_axial_moment_pair: <<axial in N, moment in N m>>; the axial force of
\* point 7 is rounded to a whole kN after the moments are summed.
get_axial_moment_pair(c, beta1, a, point) ==
    LET axial_components == get_axial(c, a)
        marm_components == get_moment_arm(c, beta1, a)
        actual_moment ==
            MulDiv(axial_components[1], marm_components[1], 2000000)
            + MulDiv(axial_components[2], marm_components[2], 2000000)
            + MulDiv(axial_components[3], marm_components[3], 2000000)
            + MulDiv(axial_components[4], marm_components[4], 2000000)
        actual_axial ==
            IF point = 7 THEN 1000 * RoundHalfEven(axial_components[4], 1000)
            ELSE axial_components[4]
    IN  <<actual_axial, actual_moment>>

\* nom * phi for phi carried as 2400000 * phi
TimesPhi(nom, phi) == MulDiv(nom, phi, 2400000)

\* line 192-194: the three steel areas, the first that raises deciding
SteelAreas(d_main, n_bar, n_bar_total) ==
    LET As1 == calc_steelarea(d_main, n_bar)
        As_total == calc_steelarea(d_main, n_bar_total)
    IN  IF As1.kind = "raise" THEN As1
        ELSE IF As_total.kind = "raise" THEN As_total
        ELSE Return(<<As1.val, As1.val, As_total.val>>)

\* lines 208-263: a point 2..7
InteriorPoint(a, point, c_initial, flag) ==
    LET beta1 == calc_betaone(a.fc)
    IN  IF beta1.kind = "raise" THEN beta1
        ELSE LET c == get_c(a, point, c_initial, flag)
             IN  IF c[1] = 0 THEN Raised("ZeroDivisionError")
                 ELSE LET phi_value == calc_phi_value(tsteel_strain(c, a.dt), a.fy)
                          nom == get_axial_moment_pair(c, beta1.val, a, point)
                      IN  Return(<<TimesPhi(nom[1], phi_value),
                                   TimesPhi(nom[2], phi_value)>>)

\* get_cid_coordinate: <<phi_Pn in N, phi_Mn in N m>>, or the exception
\* raised; flag is what fsolve reports when the point calls the solver.
get_cid_coordinate(b, h, ccover, d_main, d_trans, n_bar, n_bar_total, fc, fy, point, c_initial, flag) ==
    LET depths == calc_effdepth(h, ccover, d_main, d_trans)
        areas == SteelAreas(d_main, n_bar, n_bar_total)
    IN  IF areas.kind = "raise" THEN areas
        ELSE IF point = 1
        THEN Return(<<TimesPhi(max_nomaxial(b, h, areas.val[3], fc, fy), 1560000), 0>>)
        ELSE IF point = 8
        THEN Return(<<TimesPhi(-MulDiv(fy, areas.val[3], 1000), 2160000), 0>>)
        ELSE InteriorPoint([b |-> b, h |-> h, dt |-> depths[1], dc |-> depths[2],
                            As1 |-> areas.val[1], As2 |-> areas.val[2],
                            As |-> areas.val[3], fc |-> fc, fy |-> fy],
                           point, c_initial, flag)

(***************************************************************************)
(* src/app.py, lines 38 and 78-100: the two loops that build the diagrams. *)
(***************************************************************************)

\* line 38
n_bar_total(s) == s.n_bar_b * 2 + (s.n_bar_h - 2) * 2

\* lines 83-88: the call of the first loop for the point i + 1
plot_result(s, point) ==
    get_cid_coordinate(s.b, s.h, s.ccover, s.d_main, <<s.d_trans>>, s.n_bar_b,
                       n_bar_total(s), s.fc, s.fy, point, None, 1)

\* The second loop handing the total number of bars as the bars of a face.
plot_result_y_TotalBars(s, point) ==
    get_cid_coordinate(s.h, s.b, s.ccover, s.d_main, <<s.d_trans>>, n_bar_total(s),
                       n_bar_total(s), s.fc, s.fy, point, None, 1)

\* lines 93-98: the call of the second loop, b and h exchanged, n_bar_h used
plot_result_y(s, point) ==
    get_cid_coordinate(s.h, s.b, s.ccover, s.d_main, <<s.d_trans>>, s.n_bar_h,
                       n_bar_total(s), s.fc, s.fy, point, None, 1)

\* One pass of the first loop: the point is appended, or the exception ends
\* the script.
LoopX ==
    /\ pc = "loop_x"
    /\ \E r \in {plot_result(section, Len(cid_coordinates_x) + 1)} :
           IF r.kind = "raise"
           THEN /\ pc' = "error"
                /\ UNCHANGED cid_coordinates_x
           ELSE /\ cid_coordinates_x' = Append(cid_coordinates_x, r.val)
                /\ pc' = IF Len(cid_coordinates_x) + 1 = TOTAL_POINTS
                         THEN "loop_y" ELSE "loop_x"
    /\ UNCHANGED <<section, cid_coordinates_y, adqVars, callVars>>

\* One pass of the second loop.
LoopY ==
    /\ pc = "loop_y"
    /\ \E r \in {plot_result_y(section, Len(cid_coordinates_y) + 1)} :
           IF r.kind = "raise"
           THEN /\ pc' = "error"
                /\ UNCHANGED cid_coordinates_y
           ELSE /\ cid_coordinates_y' = Append(cid_coordinates_y, r.val)
                /\ pc' = IF Len(cid_coordinates_y) + 1 = TOTAL_POINTS
                         THEN "done" ELSE "loop_y"
    /\ UNCHANGED <<section, cid_coordinates_x, adqVars, callVars>>

\* The sections of the form: its widgets give b, h >= 200, a cover >= 40, a
\* standard bar size, a tie of 10, 12 or 16, at least 2 bars a side, fc >= 17
\* and fy >= 230.
FormSections ==
    [b : {250, 300}, h : {250, 300}, ccover : {40}, d_main : {16, 20},
     d_trans : {10}, n_bar_b : {2, 3}, n_bar_h : {2, 3}, fc : {21, 35}, fy : {420}]
    \cup [b : {200, 250}, h : {200, 250}, ccover : {40}, d_main : {25},
          d_trans : {10}, n_bar_b : {2}, n_bar_h : {2}, fc : {21}, fy : {420}]
    \cup [b : {800}, h : {800}, ccover : {40}, d_main : {10, 32},
          d_trans : {10}, n_bar_b : {2, 4}, n_bar_h : {2}, fc : {21}, fy : {420}]

InitApp ==
    /\ pc = "loop_x"
    /\ section \in FormSections
    /\ cid_coordinates_x = <<>>
    /\ cid_coordinates_y = <<>>
    /\ cid_df = Unused /\ input_Pu = Unused /\ input_Mu = 0
    /\ scan = NoScan /\ adequacy = NoResult
    /\ op = Unused /\ argv = Unused /\ retv = Unused /\ ier = 1

NextApp == LoopX \/ LoopY

SpecApp == InitApp /\ [][NextApp]_vars

(***************************************************************************)
(* src/columnconc.py: check_detailing                                      *)
(***************************************************************************)

AGG_SIZE == 20

\* line 346: max(40, 1.5 * d_main, round(4/3 * AGG_SIZE)), in half millimetres
min_req_clear_spacing(d_main) ==
    SetMax({80, 3 * d_main, 2 * RoundHalfEven(4 * AGG_SIZE, 3)})

\* The lower limit of the steel ratio taken strictly.
SteelRatioWithin_Strict(rho) == rho[2] < 100 * rho[1] /\ 25 * rho[1] <= 2 * rho[2]

\* line 349: MIN_STEEL_RATIO <= rho <= MAX_STEEL_RATIO for rho = n / d,
\* 0.01 and 0.08 being 1/100 and 2/25
SteelRatioWithin(rho) == rho[2] <= 100 * rho[1] /\ 25 * rho[1] <= 2 * rho[2]

\* min(cspace_b, cspace_h) of two fractions with positive denominators
FracMin(x, y) == IF y[1] * x[2] < x[1] * y[2] THEN y ELSE x

\* A spacing equal to the required one accepted.
SpacingAtLeast(x, req) == 2 * x[1] >= req * x[2]

\* line 350: the smallest clear spacing > the required one (half millimetres)
SpacingAbove(x, req) == 2 * x[1] > req * x[2]

check_detailing(secproperties, d_main) ==
    [is_rho_adequate |-> SteelRatioWithin(secproperties.rho),
     is_cspace_adequate |->
        SpacingAbove(FracMin(secproperties.cspace_b, secproperties.cspace_h),
                     min_req_clear_spacing(d_main))]

(***************************************************************************)
(* Calls of the functions on bounded arguments.                            *)
(***************************************************************************)

Called == pc' = "done" /\ UNCHANGED <<op, argv, ier, adqVars, appVars>>

Call_calc_steelarea ==
    /\ pc = "call" /\ op = "calc_steelarea"
    /\ retv' = [i \in DOMAIN argv |-> calc_steelarea(argv[i].d_main, argv[i].n_bar)]
    /\ Called

Call_calc_betaone ==
    /\ pc = "call" /\ op = "calc_betaone"
    /\ retv' = [i \in DOMAIN argv |-> calc_betaone(argv[i].fc)]
    /\ Called

Call_calc_fs ==
    /\ pc = "call" /\ op = "calc_fs"
    /\ retv' = [i \in DOMAIN argv |-> calc_fs(argv[i].c, argv[i].d, argv[i].fy)]
    /\ Called

Call_calc_phi_value ==
    /\ pc = "call" /\ op = "calc_phi_value"
    /\ retv' = [i \in DOMAIN argv |->
                    Return(calc_phi_value(argv[i].tstrain, argv[i].fy))]
    /\ Called

Call_get_matproperties ==
    /\ pc = "call" /\ op = "get_matproperties"
    /\ retv' = [i \in DOMAIN argv |-> get_matproperties(argv[i].fc, argv[i].fy)]
    /\ Called

Call_get_fconcrete ==
    /\ pc = "call" /\ op = "get_fconcrete"
    /\ retv' = [i \in DOMAIN argv |-> get_fconcrete(argv[i].c, argv[i].b, argv[i].fc)]
    /\ Called

Call_get_cid_coordinate ==
    /\ pc = "call" /\ op = "get_cid_coordinate"
    /\ retv' = [i \in DOMAIN argv |->
                    get_cid_coordinate(argv[i].b, argv[i].h, argv[i].ccover,
                                       argv[i].d_main, argv[i].d_trans, argv[i].n_bar,
                                       argv[i].n_bar_total, argv[i].fc, argv[i].fy,
                                       argv[i].point, argv[i].c_initial, ier)]
    /\ Called

Call_get_c ==
    /\ pc = "call" /\ op = "get_c"
    /\ retv' = [i \in DOMAIN argv |->
                    Return(get_c(argv[i].a, argv[i].condition, argv[i].c_initial, ier))]
    /\ Called

Call_check_detailing ==
    /\ pc = "call" /\ op = "check_detailing"
    /\ retv' = [i \in DOMAIN argv |->
                    Return(check_detailing(argv[i].secproperties, argv[i].d_main))]
    /\ Called

\* The bounds of the arguments.
MaxBarSize == 51
MaxBars == 5
MaxFc == 60
MaxStrain == 60

MaxDt == 40

FcVals == 10..MaxFc

\* lines 190-194 of get_cid_coordinate: what get_c is handed for a section
SolverArgs(b, h, ccover, d_main, d_trans, n_bar, n_bar_all, fc, fy) ==
    LET depths == calc_effdepth(h, ccover, d_main, d_trans)
        areas == SteelAreas(d_main, n_bar, n_bar_all).val
    IN  [b |-> b, h |-> h, dt |-> depths[1], dc |-> depths[2], As1 |-> areas[1],
         As2 |-> areas[2], As |-> areas[3], fc |-> fc, fy |-> fy]

\* get_c for sections, and for the closed forms for every dt up to MaxDt / 2
GetCArgs ==
    {[a |-> SolverArgs(250, h, 40, 16, <<10>>, 2, 4, fc, fy), condition |-> k,
      c_initial |-> ci] :
        h \in {250, 400}, fc \in {17, 21, 30}, fy \in {230, 420, 500},
        k \in 2..(TOTAL_POINTS - 1), ci \in {None, <<150>>}}

\* get_c at the conditions 4, 5 and 6 of one section side by side, with a
\* starting point and without one, for depths dt up to 10 * MaxDt mm
ClosedFormArgs ==
    {[i \in 1..6 |->
        [a |-> [SolverArgs(250, 250, 40, 16, <<10>>, 2, 4, 21, fy) EXCEPT !.dt = dt],
         condition |-> 4 + ((i - 1) % 3),
         c_initial |-> IF i <= 3 THEN <<150>> ELSE None]] :
        dt \in (1..MaxDt) \cup {20 * k : k \in 1..MaxDt},
        fy \in {230, 280, 420, 500, 700}}

StrainVals == {20000 * k : k \in 0..MaxStrain}

\* One call, and for the functions of one number two calls side by side.
CallArgs ==
    [calc_steelarea |->
        {<<x>> : x \in [d_main : 8..MaxBarSize, n_bar : 0..MaxBars]},
     calc_betaone |->
        {<<[fc |-> x], [fc |-> y]>> : x \in FcVals, y \in FcVals},
     calc_fs |->
        {<<x>> : x \in [c : {<<10 * k, 1>> : k \in 0..MaxDt},
                        d : {20 * k : k \in (-MaxBars)..MaxDt},
                        fy : {230, 420, 700}]},
     calc_phi_value |->
        {<<[tstrain |-> x, fy |-> f], [tstrain |-> y, fy |-> f]>> :
            x \in StrainVals, y \in StrainVals, f \in {420, 500}},
     get_matproperties |->
        {<<x>> : x \in [fc : (-1)..MaxFc, fy : {420}]},
     get_fconcrete |->
        {<<x>> : x \in [c : {<<100, 1>>}, b : {250}, fc : FcVals]},
     get_cid_coordinate |->
        {<<x>> : x \in [b : {250}, h : {250, 400}, ccover : {40}, d_main : {16, 17},
                        d_trans : {None, <<10>>}, n_bar : {1, 2}, n_bar_total : {1, 4},
                        fc : {16, 17, 30}, fy : {420}, point : 1..TOTAL_POINTS,
                        c_initial : {None, <<0>>, <<150>>}]},
     get_c |-> {<<x>> : x \in GetCArgs} \cup ClosedFormArgs]

\* fsolve finds the root from the default starting point; from a starting
\* point of the caller's it may fail, and from 0, where the residual is not
\* finite, it does.
FlagsFor(f, args) ==
    IF f \notin {"get_cid_coordinate", "get_c"} \/ args[1].c_initial = None THEN {1}
    ELSE IF args[1].c_initial = <<0>> THEN {5}
    ELSE {1, 5}

InitCall ==
    /\ pc = "call"
    /\ op \in DOMAIN CallArgs
    /\ argv \in CallArgs[op]
    /\ ier \in FlagsFor(op, argv)
    /\ retv = Unused
    /\ cid_df = Unused /\ input_Pu = Unused /\ input_Mu = 0
    /\ scan = NoScan /\ adequacy = NoResult
    /\ section = Unused /\ cid_coordinates_x = Unused /\ cid_coordinates_y = Unused

NextCall ==
    \/ Call_calc_steelarea
    \/ Call_calc_betaone
    \/ Call_calc_fs
    \/ Call_calc_phi_value
    \/ Call_get_matproperties
    \/ Call_get_fconcrete
    \/ Call_get_cid_coordinate
    \/ Call_get_c

SpecCall == InitCall /\ [][NextCall]_vars

(***************************************************************************)
(* Properties of the calls.                                                *)
(***************************************************************************)

CallDone(f) == pc = "done" /\ op = f

RaisedValueError(r) == r.kind = "raise" /\ r.err = "ValueError"

\* C3: at the points 2, 3 and 7, a solver that stops without having
\* converged makes get_cid_coordinate end in an error, never in a coordinate.
CexC3_UnconvergedIsAnError ==
    (CallDone("get_cid_coordinate") /\ argv[1].point \in {2, 3, 7} /\ ier # 1)
        => retv[1].kind = "raise"

\* C4: calc_steelarea raises ValueError exactly when n_bar < 2 or d_main is
\* not a standard size, and returns an area otherwise; get_cid_coordinate
\* raises it for such arguments at every point 1..8.
ThmC4_SteelAreaGuards ==
    /\ CallDone("calc_steelarea") =>
          IF argv[1].n_bar < 2
                \/ argv[1].d_main \notin {10, 12, 16, 20, 25, 28, 32, 36, 40, 50}
          THEN RaisedValueError(retv[1])
          ELSE retv[1].kind = "return" /\ retv[1].val > 0
    /\ CallDone("get_cid_coordinate") =>
          ((argv[1].n_bar < 2
                \/ argv[1].d_main \notin {10, 12, 16, 20, 25, 28, 32, 36, 40, 50})
             => RaisedValueError(retv[1]))

WitC4_PointEightOneBar ==
    /\ CallDone("get_cid_coordinate")
    /\ argv[1].point = 8 /\ argv[1].n_bar = 1 /\ argv[1].d_main = 16
    /\ argv[1].fc = 30
    /\ RaisedValueError(retv[1])

\* C5: calc_betaone, get_matproperties, get_fconcrete and get_cid_coordinate
\* (at every point 1..8) raise ValueError for every fc below 17.
CexC5_LowFcIsRejected ==
    (pc = "done" /\ op \in {"calc_betaone", "get_matproperties", "get_fconcrete",
                            "get_cid_coordinate"})
        => \A i \in DOMAIN argv : argv[i].fc < 17 => RaisedValueError(retv[i])

\* C6: 0.65 <= calc_betaone(fc) <= 0.85 for fc in [17, 55], and
\* calc_betaone(fc1) >= calc_betaone(fc2) for 28 <= fc1 <= fc2 <= 55
\* (beta1 is carried as 700 * beta1: 0.65 is 455, 0.85 is 595).
CexC6_BetaOneBoundedNonIncreasing ==
    CallDone("calc_betaone") =>
        /\ \A i \in DOMAIN argv :
              (17 <= argv[i].fc /\ argv[i].fc <= 55)
                 => (retv[i].kind = "return" /\ 455 <= retv[i].val /\ retv[i].val <= 595)
        /\ (28 <= argv[1].fc /\ argv[1].fc <= argv[2].fc /\ argv[2].fc <= 55)
              => retv[1].val >= retv[2].val

\* C7: calc_phi_value is 0.65 for tstrain <= ystrain, 0.90 for
\* tstrain >= ystrain + 0.003 and 0.65 + 0.25 (tstrain - ystrain) / 0.003
\* between; it stays in [0.65, 0.90], does not decrease with tstrain and
\* rises no faster than the transition line, so it has no jump (phi is
\* carried as 2400000 * phi, strains as 200000000 * strain).
ThmC7_PhiValue ==
    CallDone("calc_phi_value") =>
        /\ \A i \in DOMAIN argv :
              LET t == argv[i].tstrain
                  y == 1000 * argv[i].fy
                  phi == retv[i].val
              IN  /\ t <= y => phi = 1560000
                  /\ t >= y + 600000 => phi = 2160000
                  /\ (y < t /\ t < y + 600000) => phi = 1560000 + (t - y)
                  /\ 1560000 <= phi /\ phi <= 2160000
        /\ argv[1].tstrain <= argv[2].tstrain
              => /\ retv[1].val <= retv[2].val
                 /\ retv[2].val - retv[1].val <= argv[2].tstrain - argv[1].tstrain

WitC7_AcrossBothBoundaries ==
    /\ CallDone("calc_phi_value")
    /\ argv[1].fy = 420
    /\ argv[1].tstrain = 420000 /\ retv[1].val = 1560000
    /\ argv[2].tstrain = 1020000 /\ retv[2].val = 2160000

(***************************************************************************)
(* check_detailing on section properties at and around its limits, and on  *)
(* those of the sections of the form.                                      *)
(***************************************************************************)

MaxRho == 90

\* rho in thousandths around 0.01 and 0.08
RhoVals == {0, MaxRho} \cup 9..11 \cup 79..81

\* clear spacings in half millimetres around 27, 40 and 1.5 * d_main
SpacingVals(d_main) ==
    {<<v + e, 2>> : v \in {54, 80, 3 * d_main}, e \in (-1)..1}

\* lines 39-42 and 215 of the script: the properties of a section of the form
FormDetailingArgs ==
    {[secproperties |->
         LET x == get_secproperties(s.b, s.h, s.ccover, s.d_main, s.d_trans,
                                    s.n_bar_b, s.n_bar_h, n_bar_total(s)).val
         IN  [rho |-> x.rho, cspace_b |-> x.cspace_b, cspace_h |-> x.cspace_h],
      d_main |-> s.d_main] : s \in FormSections}

DetailingArgs ==
    UNION {[secproperties : [rho : {<<r, 1000>> : r \in RhoVals},
                             cspace_b : SpacingVals(d), cspace_h : SpacingVals(d)],
            d_main : {d}] : d \in STD_REBAR_SIZES}
    \cup FormDetailingArgs

InitDetailing ==
    /\ pc = "call"
    /\ op = "check_detailing"
    /\ argv \in {<<x>> : x \in DetailingArgs}
    /\ ier = 1
    /\ retv = Unused
    /\ cid_df = Unused /\ input_Pu = Unused /\ input_Mu = 0
    /\ scan = NoScan /\ adequacy = NoResult
    /\ section = Unused /\ cid_coordinates_x = Unused /\ cid_coordinates_y = Unused

NextDetailing == Call_check_detailing

SpecDetailing == InitDetailing /\ [][NextDetailing]_vars

\* C8: is_rho_adequate is True exactly when 0.01 <= rho <= 0.08, both ends
\* included, whatever the clear spacings and d_main are.
ThmC8_RhoFlag ==
    CallDone("check_detailing") =>
        LET rho == argv[1].secproperties.rho
        IN  retv[1].val.is_rho_adequate
               = (rho[2] <= 100 * rho[1] /\ 25 * rho[1] <= 2 * rho[2])

WitC8_AtLowerLimitSpacingShort ==
    /\ CallDone("check_detailing")
    /\ argv[1].secproperties.rho = <<10, 1000>>
    /\ retv[1].val.is_rho_adequate
    /\ ~retv[1].val.is_cspace_adequate

ThmC10_SquareSymmetricAxesAgree ==
    (pc \in {"loop_y", "done"} /\ section.b = section.h
        /\ section.n_bar_b = section.n_bar_h)
      => \A i \in 1..Len(cid_coordinates_y) :
            cid_coordinates_y[i] = cid_coordinates_x[i]

WitC10_SquareSectionAllPoints ==
    /\ pc = "done"
    /\ section.b = section.h /\ section.n_bar_b = section.n_bar_h
    /\ Len(cid_coordinates_x) = TOTAL_POINTS
    /\ Len(cid_coordinates_y) = TOTAL_POINTS
    /\ cid_coordinates_x[3][2] > 0
    /\ cid_coordinates_y[3] = cid_coordinates_x[3]

\* The sections check_detailing accepts: both of its flags True.
DetailingAccepts(s) ==
    LET x == get_secproperties(s.b, s.h, s.ccover, s.d_main, s.d_trans, s.n_bar_b,
                               s.n_bar_h, n_bar_total(s)).val
        d == check_detailing(x, s.d_main)
    IN  d.is_rho_adequate /\ d.is_cspace_adequate

\* What the depth of the neutral axis being solved to 0.001 mm leaves open in
\* an axial force, in N.
SolverTolerance == 50

\* phi_Pn of the points 2..7 lies between that of point 8 and, up to e, that
\* of point 1.
AxialWithinEnds(coords, e) ==
    \A i \in 2..(TOTAL_POINTS - 1) :
        /\ coords[TOTAL_POINTS][1] <= coords[i][1]
        /\ coords[i][1] <= coords[1][1] + e

DepthIs(c, d2) == Abs(2000 * c[1] - 1000 * d2 * c[2]) <= 2 * c[2]

\* C12: at condition 3 the depth get_c returns is dt, where the unclipped
\* stress 600 (c - dt) / c of the tension steel is zero.
CexC12_ConditionThreeDepthIsDt ==
    (CallDone("get_c") /\ argv[1].condition = 3 /\ ier = 1)
        => /\ DepthIs(retv[1].val, argv[1].a.dt)
           /\ Abs(RawStress(retv[1].val, argv[1].a.dt)) <= 1

\* C13: a call of check_col_adequacy leaves the caller's diagram as it was,
\* the same 8 rows in the same order, whichever branch it takes; so a later
\* call on the diagram sees the rows an earlier one saw.
ThmC13_DiagramUntouched == [][cid_df' = cid_df]_vars

\* A call with a moment demand on a diagram whose rows are not in ascending
\* order of phi_Pn has sorted, found its pair and returned NG.
WitC13_UnsortedDiagramCheckedNG ==
    /\ pc = "done"
    /\ input_Mu # 0
    /\ scan.i \in ScanLabels
    /\ adequacy.kind = "return" /\ adequacy.status = "NG"
    /\ \E r \in 1..(TOTAL_POINTS - 1) : cid_df[r].phi_Pn > cid_df[r + 1].phi_Pn
    /\ cid_df \in Diagrams

\* 600 (c - d) / c as the quotient StressNum / StressDen of integers, times
\* 1000, for c = cn / cd > 0 and d = d2 / 2.
StressNum(c, d2) == 600000 * (2 * c[1] - d2 * c[2])
StressDen(c) == 2 * c[1]

\* C14: for c > 0, calc_fs returns 600 (c - d) / c when that lies within
\* [-fy, fy], fy when it is above fy and -fy when it is below -fy; so the
\* result is within [-fy, fy] and has the sign of c - d.
ThmC14_SteelStressClipped ==
    (CallDone("calc_fs") /\ argv[1].c[1] > 0)
        => LET c   == argv[1].c
               d2  == argv[1].d
               fy  == 1000 * argv[1].fy
               num == StressNum(c, d2)
               den == StressDen(c)
               r   == retv[1]
           IN  /\ r.kind = "return"
               /\ (Abs(num) <= fy * den) => 2 * Abs(r.val * den - num) <= den
               /\ (num > fy * den) => r.val = fy
               /\ (num < -(fy * den)) => r.val = -fy
               /\ Abs(r.val) <= fy
               /\ Sign(r.val) = Sign(2 * c[1] - d2 * c[2])

\* A bar far below the neutral axis, its stress cut off at -fy; and the three
\* cases of the result occur for one depth c.
WitC14_TensionBarAtYield ==
    /\ CallDone("calc_fs") /\ argv[1].c[1] > 0
    /\ argv[1].fy = 420
    /\ StressNum(argv[1].c, argv[1].d) < -(420000 * StressDen(argv[1].c))
    /\ retv[1] = Return(-420000)
    /\ \E d2 \in {20 * k : k \in (-MaxBars)..MaxDt} :
          calc_fs(argv[1].c, d2, 420) = Return(420000)
    /\ \E d2 \in {20 * k : k \in (-MaxBars)..MaxDt} :
          Abs(calc_fs(argv[1].c, d2, 420).val) \in 1..419999

\* c < e for two depths given as fractions with positive denominators
DepthBelow(c, e) == c[1] * e[2] < e[1] * c[2]

\* C15: the depths get_c returns at the conditions 4, 5 and 6 put the strain
\* of the tension steel, 0.003 |c - dt| / c, at half the yield strain, at the
\* yield strain and at the yield strain plus 0.003, where phi is 0.65, 0.65
\* and 0.90; dt > c4 > c5 > c6 > 0; and the starting point c_initial and the
\* solver play no part.
ThmC15_ClosedFormDepths ==
    (CallDone("get_c") /\ Len(argv) = 6)
        => LET dt == argv[1].a.dt
               fy == argv[1].a.fy
               c4 == retv[1].val
               c5 == retv[2].val
               c6 == retv[3].val
           IN  /\ \A i \in 1..6 : retv[i].kind = "return"
               /\ tsteel_strain(c4, dt) = 500 * fy
               /\ calc_phi_value(tsteel_strain(c4, dt), fy) = 1560000
               /\ tsteel_strain(c5, dt) = 1000 * fy
               /\ calc_phi_value(tsteel_strain(c5, dt), fy) = 1560000
               /\ tsteel_strain(c6, dt) = 1000 * fy + 600000
               /\ calc_phi_value(tsteel_strain(c6, dt), fy) = 2160000
               /\ DepthBelow(c4, <<dt, 2>>) /\ DepthBelow(c5, c4)
               /\ DepthBelow(c6, c5) /\ DepthBelow(<<0, 1>>, c6)
               /\ \A i \in 1..3 : retv[i] = retv[i + 3]

\* The three depths of a section with dt = 190 mm and fy = 420, the calls
\* given a starting point and a solver that would not have converged.
WitC15_BalancedDepthOfSection ==
    /\ CallDone("get_c") /\ Len(argv) = 6
    /\ argv[1].a.dt = 380 /\ argv[1].a.fy = 420
    /\ argv[2].condition = 5 /\ argv[2].c_initial # None /\ ier # 1
    /\ argv[5].condition = 5 /\ argv[5].c_initial = None
    /\ tsteel_strain(retv[2].val, 380) = 420000
    /\ DepthBelow(retv[2].val, <<112, 1>>) /\ DepthBelow(<<111, 1>>, retv[2].val)

\* C16: with Pu within the range of the diagram and Mu # 0, the scan of the
\* sorted rows stops at a label i <= 6 whose rows i and i + 1, neighbours in
\* the sorted frame, have Pn1 <= Pu <= Pn2; the call returns (no row past
\* the 8th is read) and the interpolated moment is the one of that pair.
ThmC16_ScanFindsPair ==
    (pc = "done" /\ PuGiven /\ PuInRange /\ input_Mu # 0)
        => /\ adequacy.kind = "return"
           /\ scan.i \in 0..(TOTAL_POINTS - 2)
           /\ scan.Pn1 = sort_values(cid_df)[scan.i + 1]
           /\ scan.Pn2 = sort_values(cid_df)[scan.i + 2]
           /\ scan.Pn1 <= input_Pu[1] /\ input_Pu[1] <= scan.Pn2
           /\ \A j \in 0..(scan.i - 1) :
                 ~(sort_values(cid_df)[j + 1] <= input_Pu[1]
                     /\ input_Pu[1] <= sort_values(cid_df)[j + 2])
           /\ scan.corr = Interpolate(scan.Pn1, scan.Mn1, scan.Pn2, scan.Mn2, input_Pu[1])

\* The pair is the last one, rows 6 and 7 of the sorted frame, for a diagram
\* given out of order and an axial demand equal to its largest phi_Pn.
WitC16_LastPairAtLargestAxial ==
    /\ pc = "done" /\ PuGiven /\ input_Mu # 0
    /\ input_Pu[1] = max_phi_Pn(cid_df)
    /\ scan.i = TOTAL_POINTS - 2
    /\ adequacy.kind = "return"
    /\ \E r \in 1..(TOTAL_POINTS - 1) : cid_df[r].phi_Pn > cid_df[r + 1].phi_Pn

\* C17: whenever the scan has selected a pair, its two axial values differ,
\* so that the divisor Pn1 - Pn2 of line 309 is not zero and the interpolated
\* moment is a number.
CexC17_SelectedPairDistinct ==
    (pc = "done" /\ PuGiven /\ input_Mu # 0 /\ scan.i \in ScanLabels)
        => /\ scan.Pn1 # scan.Pn2
           /\ scan.corr[2] # 0

=============================================================================
